---- MODULE Spec2Model ----
(***************************************************************************)
(* Model of the three beatmap generators of the Bloomify engine:           *)
(*   generate_stream_map           (auto_gen_expert.py)                    *)
(*   generate_smart_beatmap        (auto_gen.py)                           *)
(*   generate_configurable_beatmap (auto_gen_Silly.py)                     *)
(*                                                                         *)
(* Times.  The audio analysis returns float seconds.  The model measures   *)
(* every input time in ticks, TicksPerMs ticks to the millisecond, and     *)
(* keeps a computed timestamp as an exact fraction num/den of ticks, so    *)
(* that int(t_sec * 1000) is the truncating division of TimeMs.  Floating  *)
(* point rounding is not modelled.                                         *)
(*                                                                         *)
(* Indices.  Beat indices and stream sections keep Python's 0-based        *)
(* values; a TLA+ sequence is read at index + 1.                           *)
(*                                                                         *)
(* Randomness (random.choice, random.random) and the results of the audio  *)
(* analysis are nondeterministic choices: a downbeat may or may not get a  *)
(* chord (0 < chord_chance < 1), and the difficulty threshold is any value *)
(* between the least and the greatest onset strength.  The minimum stream  *)
(* duration takes whole numbers of beats.                                  *)
(***************************************************************************)
EXTENDS Integers, Sequences, FiniteSets

\* ---------------------------------------------------------------- bounds
MaxTime == 2            \* input times are 0..MaxTime ticks
MaxBeats == 3           \* beat timestamps of an analysis
MaxOnsets == 2          \* onset timestamps of an analysis
MaxSubdivision == 2     \* stream_subdivision
MaxMinDuration == 2     \* min_stream_duration_beats
MaxFlags == 5           \* beats of an analysis given to the section detector alone
TicksPerMs == 1         \* the resolution of the input times
MaxStrength == 2        \* RMS strengths are 1..MaxStrength

\* ------------------------------------------------------- program constants
DefaultLanes == 4

Patterns ==
    { <<0, 2, 1, 3, 2, 0, 3, 1>>,
      <<0, 1, 2, 3, 2, 1, 0, 1>>,
      <<0, 3, 1, 2, 1, 3, 0, 2>> }

VARIABLES
    gen,                        \* which generator runs
    pc,                         \* its position: "scan", "timestamps", "filter", "place", "returned", "error"
    lanes, stream_subdivision, min_stream_duration_beats, mode,
    beat_times, is_beat_high_energy, onset_times,
    stream_sections, current_stream_start,
    i,                          \* the index of the loop that is running
    current_beat, note_timestamps, beat_flags,
    current_pattern, pattern_index,
    notes_to_place, last_lane,
    notes,
    is_chord                    \* history: is_chord[k] iff notes[k] was appended as a chord

vars == << gen, pc, lanes, stream_subdivision, min_stream_duration_beats, mode,
           beat_times, is_beat_high_energy, onset_times,
           stream_sections, current_stream_start, i,
           current_beat, note_timestamps, beat_flags, current_pattern, pattern_index,
           notes_to_place, last_lane, notes, is_chord >>

params == << gen, lanes, stream_subdivision, min_stream_duration_beats, mode >>
analysis == << beat_times, is_beat_high_energy, onset_times >>
detector == << stream_sections, current_stream_start >>
generator == << current_beat, note_timestamps, beat_flags >>
placement == << current_pattern, pattern_index, notes_to_place, last_lane, notes, is_chord >>

\* ---------------------------------------------------------------- helpers
Range(s) == { s[k] : k \in 1..Len(s) }

\* Strictly increasing sequences of length n over lo..hi.
RECURSIVE IncreasingSeqs(_, _, _)
IncreasingSeqs(n, lo, hi) ==
    IF n = 0 THEN { <<>> }
    ELSE UNION { { <<t>> \o rest : rest \in IncreasingSeqs(n - 1, t + 1, hi) } : t \in lo..hi }

\* Non-decreasing sequences of length n over lo..hi.
RECURSIVE AscendingSeqs(_, _, _)
AscendingSeqs(n, lo, hi) ==
    IF n = 0 THEN { <<>> }
    ELSE UNION { { <<t>> \o rest : rest \in AscendingSeqs(n - 1, t, hi) } : t \in lo..hi }

Min(S) == CHOOSE x \in S : \A y \in S : x <= y
Max(S) == CHOOSE x \in S : \A y \in S : x >= y

\* int(t_sec * 1000) of a timestamp of num/den ticks (times are >= 0).
TimeMs(ts) == ts.num \div (ts.den * TicksPerMs)

\* ------------------------------------------------- stream section detector
\* Mutant: a run of exactly the minimum duration is too short.
LongEnoughStrict(length, minimum) == length > minimum

LongEnough(length, minimum) == length >= minimum

\* Mutant: the scan does not reset current_stream_start when a run ends.
ScanBeatNoReset ==
    /\ gen = "stream" /\ pc = "scan" /\ i < Len(is_beat_high_energy)
    /\ LET is_high == is_beat_high_energy[i + 1] IN
       IF is_high /\ current_stream_start = -1
       THEN /\ current_stream_start' = i
            /\ UNCHANGED stream_sections
       ELSE IF ~is_high /\ current_stream_start # -1
       THEN /\ stream_sections' =
                   IF LongEnough(i - current_stream_start, min_stream_duration_beats)
                   THEN Append(stream_sections, <<current_stream_start, i>>)
                   ELSE stream_sections
            /\ UNCHANGED current_stream_start
       ELSE UNCHANGED detector
    /\ i' = i + 1
    /\ UNCHANGED << pc, params, analysis, generator, placement >>

\* One iteration of the scan over is_beat_high_energy.
ScanBeat ==
    /\ gen = "stream" /\ pc = "scan" /\ i < Len(is_beat_high_energy)
    /\ LET is_high == is_beat_high_energy[i + 1] IN
       IF is_high /\ current_stream_start = -1
       THEN /\ current_stream_start' = i
            /\ UNCHANGED stream_sections
       ELSE IF ~is_high /\ current_stream_start # -1
       THEN /\ stream_sections' =
                   IF LongEnough(i - current_stream_start, min_stream_duration_beats)
                   THEN Append(stream_sections, <<current_stream_start, i>>)
                   ELSE stream_sections
            /\ current_stream_start' = -1
       ELSE UNCHANGED detector
    /\ i' = i + 1
    /\ UNCHANGED << pc, params, analysis, generator, placement >>

\* After the scan: a stream that goes to the end of the song.
ScanEndOfSong ==
    /\ gen = "stream" /\ pc = "scan" /\ i >= Len(is_beat_high_energy)
    /\ stream_sections' =
           IF /\ current_stream_start # -1
              /\ LongEnough(Len(beat_times) - current_stream_start, min_stream_duration_beats)
           THEN Append(stream_sections, <<current_stream_start, Len(beat_times)>>)
           ELSE stream_sections
    /\ pc' = "timestamps"
    /\ current_beat' = 0
    /\ UNCHANGED << params, analysis, current_stream_start, i,
                    note_timestamps, beat_flags, placement >>

\* ------------------------------------------------ note timestamp generator
\* Mutant: the end of a section is taken as inside it.
InStreamInclusive(beat, sections) ==
    \E k \in 1..Len(sections) : sections[k][1] <= beat /\ beat <= sections[k][2]

InStream(beat, sections) ==
    \E k \in 1..Len(sections) : sections[k][1] <= beat /\ beat < sections[k][2]

\* Mutant: the onsets are not bounded by the end of the beat interval.
OnsetsInBeatNoEnd(onsets, start_time, end_time) ==
    SelectSeq(onsets, LAMBDA t : start_time <= t)

\* The onsets of onset_times within [start_time, end_time), in list order.
OnsetsInBeat(onsets, start_time, end_time) ==
    SelectSeq(onsets, LAMBDA t : start_time <= t /\ t < end_time)

\* start_time + k * (end_time - start_time) / stream_subdivision, as a fraction.
SubdivisionTime(start_time, end_time, k, subdivision) ==
    [num |-> start_time * subdivision + k * (end_time - start_time), den |-> subdivision]

OnsetTime(t) == [num |-> t, den |-> 1]

\* range(stream_subdivision) is empty for a subdivision <= 0.
StreamTimestamps(start_time, end_time, subdivision) ==
    [k \in 1..subdivision |-> SubdivisionTime(start_time, end_time, k - 1, subdivision)]

\* Mutant: every subdivision is flagged as a downbeat.
StreamFlagsAll(subdivision) == [k \in 1..subdivision |-> TRUE]

StreamFlags(subdivision) == [k \in 1..subdivision |-> k - 1 = 0]

\* One iteration of the loop over the beat intervals.
EmitBeatInterval ==
    /\ gen = "stream" /\ pc = "timestamps" /\ current_beat < Len(beat_times) - 1
    /\ LET start_time == beat_times[current_beat + 1]
           end_time == beat_times[current_beat + 2]
           onsets_in_beat == OnsetsInBeat(onset_times, start_time, end_time)
       IN IF InStream(current_beat, stream_sections)
          THEN /\ note_timestamps' = note_timestamps \o
                       StreamTimestamps(start_time, end_time, stream_subdivision)
               /\ beat_flags' = beat_flags \o StreamFlags(stream_subdivision)
          ELSE /\ note_timestamps' = Append(note_timestamps,
                       IF onsets_in_beat # <<>> THEN OnsetTime(onsets_in_beat[1])
                                                ELSE OnsetTime(start_time))
               /\ beat_flags' = Append(beat_flags, TRUE)
    /\ current_beat' = current_beat + 1
    /\ UNCHANGED << pc, params, analysis, detector, i, placement >>

\* ------------------------------------------------- pattern based placement
\* Mutant: the pattern index wraps one entry early.
PatternLaneShortCycle(pattern, index) == pattern[(index % (Len(pattern) - 1)) + 1]

PatternLane(pattern, index) == pattern[(index % Len(pattern)) + 1]

\* [l for l in range(lanes) if l != lane1]
ChordLanes(n, lane1) == { l \in 0..(n - 1) : l # lane1 }

\* The timestamp loop is over: random.choice(list(patterns.values())).
ChoosePattern ==
    /\ gen = "stream" /\ pc = "timestamps" /\ ~(current_beat < Len(beat_times) - 1)
    /\ current_pattern' \in Patterns
    /\ pattern_index' = 0
    /\ i' = 0
    /\ pc' = "place"
    /\ UNCHANGED << params, analysis, detector, generator,
                    notes_to_place, last_lane, notes, is_chord >>

\* One iteration of the placement loop that adds no chord: not a downbeat, or
\* random.random() >= chord_chance, or no other lane.
PlacePrimary ==
    /\ gen = "stream" /\ pc = "place" /\ i < Len(note_timestamps)
    /\ LET time_ms == TimeMs(note_timestamps[i + 1])
           lane1 == PatternLane(current_pattern, pattern_index)
       IN /\ notes' = Append(notes, [time |-> time_ms, lane |-> lane1])
          /\ is_chord' = Append(is_chord, FALSE)
    /\ pattern_index' = pattern_index + 1
    /\ i' = i + 1
    /\ UNCHANGED << pc, params, analysis, detector, generator,
                    current_pattern, notes_to_place, last_lane >>

\* One iteration of the placement loop that adds a chord on a downbeat.
PlaceChord ==
    /\ gen = "stream" /\ pc = "place" /\ i < Len(note_timestamps)
    /\ beat_flags[i + 1]
    /\ LET time_ms == TimeMs(note_timestamps[i + 1])
           lane1 == PatternLane(current_pattern, pattern_index)
       IN \E lane2 \in ChordLanes(lanes, lane1) :
            /\ notes' = notes \o << [time |-> time_ms, lane |-> lane1],
                                    [time |-> time_ms, lane |-> lane2] >>
            /\ is_chord' = is_chord \o << FALSE, TRUE >>
    /\ pattern_index' = pattern_index + 1
    /\ i' = i + 1
    /\ UNCHANGED << pc, params, analysis, detector, generator,
                    current_pattern, notes_to_place, last_lane >>

ReturnStreamMap ==
    /\ gen = "stream" /\ pc = "place" /\ i >= Len(note_timestamps)
    /\ pc' = "returned"
    /\ UNCHANGED << params, analysis, detector, i, generator, placement >>

\* ------------------------------------------------------ simple generators
\* The onsets kept by s >= strength_threshold.
StrongOnsets(onsets, strengths, threshold) ==
    LET keep == { k \in 1..Len(onsets) : strengths[k] >= threshold }
        RECURSIVE Pick(_)
        Pick(k) == IF k > Len(onsets) THEN <<>>
                   ELSE (IF k \in keep THEN << onsets[k] >> ELSE <<>>) \o Pick(k + 1)
    IN Pick(1)

\* The difficulty filter.  The RMS strengths come from the audio analysis; the
\* threshold np.percentile(strengths, (1 - difficulty) * 100) lies between the
\* least and the greatest strength, and is the least one for difficulty = 1.
FilterOnsets ==
    /\ gen \in {"smart", "configurable"} /\ pc = "filter"
    /\ mode = "smart" /\ Len(onset_times) > 0
    /\ \E onset_strengths \in [1..Len(onset_times) -> 1..MaxStrength] :
         \E strength_threshold \in
               Min(Range(onset_strengths))..Max(Range(onset_strengths)) :
            notes_to_place' = StrongOnsets(onset_times, onset_strengths, strength_threshold)
    /\ pc' = "place"
    /\ i' = 0
    /\ UNCHANGED << params, analysis, detector, generator,
                    current_pattern, pattern_index, last_lane, notes, is_chord >>

\* 'chaotic' mode, or no onset detected: every onset is kept.
KeepAllOnsets ==
    /\ gen \in {"smart", "configurable"} /\ pc = "filter"
    /\ ~(mode = "smart" /\ Len(onset_times) > 0)
    /\ notes_to_place' = onset_times
    /\ pc' = "place"
    /\ i' = 0
    /\ UNCHANGED << params, analysis, detector, generator,
                    current_pattern, pattern_index, last_lane, notes, is_chord >>

\* Mutant: last_lane is not removed.
PossibleLanesAll(n, last) == 0..(n - 1)

\* list(range(lanes)) without last_lane, when last_lane is in it and it has
\* more than one element.
PossibleLanes(n, last) ==
    LET all == 0..(n - 1) IN
    IF last \in all /\ Cardinality(all) > 1 THEN all \ {last} ELSE all

\* One iteration of the no-repeat placement loop.
PlaceOnset ==
    /\ gen \in {"smart", "configurable"} /\ pc = "place" /\ i < Len(notes_to_place)
    /\ \E chosen_lane \in PossibleLanes(lanes, last_lane) :
         /\ notes' = Append(notes, [time |-> TimeMs(OnsetTime(notes_to_place[i + 1])),
                                    lane |-> chosen_lane])
         /\ last_lane' = chosen_lane
    /\ is_chord' = Append(is_chord, FALSE)
    /\ i' = i + 1
    /\ UNCHANGED << pc, params, analysis, detector, generator,
                    current_pattern, pattern_index, notes_to_place >>

\* random.choice of an empty list raises IndexError.
RaiseEmptyChoice ==
    /\ gen \in {"smart", "configurable"} /\ pc = "place" /\ i < Len(notes_to_place)
    /\ PossibleLanes(lanes, last_lane) = {}
    /\ pc' = "error"
    /\ UNCHANGED << params, analysis, detector, i, generator, placement >>

ReturnBeatmap ==
    /\ gen \in {"smart", "configurable"} /\ pc = "place" /\ i >= Len(notes_to_place)
    /\ pc' = "returned"
    /\ UNCHANGED << params, analysis, detector, i, generator, placement >>

\* ------------------------------------------------------------------- Init
Idle ==
    /\ stream_sections = <<>> /\ current_stream_start = -1
    /\ i = 0 /\ current_beat = 0
    /\ note_timestamps = <<>> /\ beat_flags = <<>>
    /\ current_pattern = <<>> /\ pattern_index = 0
    /\ notes_to_place = <<>> /\ last_lane = -1
    /\ notes = <<>> /\ is_chord = <<>>

BeatInputs == UNION { IncreasingSeqs(n, 0, MaxTime) : n \in 0..MaxBeats }
OnsetInputs == UNION { AscendingSeqs(n, 0, MaxTime) : n \in 0..MaxOnsets }

\* generate_stream_map reads onset_times only for the first onset of a beat
\* interval, which repeated onsets do not change: its analyses have distinct onsets.
StreamOnsetInputs == UNION { IncreasingSeqs(n, 0, MaxTime) : n \in 0..MaxOnsets }

\* generate_stream_map called on an analysed audio file.
InitStream ==
    /\ gen = "stream" /\ pc = "scan" /\ mode = "none"
    /\ lanes \in 0..DefaultLanes
    /\ stream_subdivision \in 0..MaxSubdivision
    /\ min_stream_duration_beats \in 1..MaxMinDuration
    /\ beat_times \in BeatInputs
    /\ is_beat_high_energy \in [1..Len(beat_times) -> BOOLEAN]
    /\ onset_times \in StreamOnsetInputs
    /\ Idle

\* The end-to-end scenario: beats at 0.0, 0.5, 1.0, 1.5 and 2.0 s, all high energy.
ScenarioBeats == [k \in 1..5 |-> (k - 1) * 500 * TicksPerMs]

InitScenario ==
    /\ gen = "stream" /\ pc = "scan" /\ mode = "none"
    /\ lanes \in 0..DefaultLanes
    /\ stream_subdivision = 4
    /\ min_stream_duration_beats = 4
    /\ beat_times = ScenarioBeats
    /\ is_beat_high_energy = [k \in 1..5 |-> TRUE]
    /\ onset_times = <<>>
    /\ Idle

\* generate_smart_beatmap or generate_configurable_beatmap called on an analysed
\* audio file; generate_smart_beatmap always filters.
InitSimple ==
    /\ gen \in {"smart", "configurable"} /\ pc = "filter"
    /\ mode \in (IF gen = "smart" THEN {"smart"} ELSE {"smart", "chaotic"})
    /\ lanes \in 0..DefaultLanes
    /\ stream_subdivision = 0 /\ min_stream_duration_beats = 0
    /\ beat_times = <<>> /\ is_beat_high_energy = <<>>
    /\ onset_times \in OnsetInputs
    /\ Idle

\* generate_stream_map called on an analysis of up to MaxFlags beats, one tick
\* apart, for the section detector, which reads the flags and the number of beats.
InitDetector ==
    /\ gen = "stream" /\ pc = "scan" /\ mode = "none"
    /\ lanes = DefaultLanes
    /\ stream_subdivision = 1
    /\ min_stream_duration_beats \in 0..(MaxFlags + 1)
    /\ \E n \in 0..MaxFlags :
         /\ beat_times = [k \in 1..n |-> k - 1]
         /\ is_beat_high_energy \in [1..n -> BOOLEAN]
    /\ onset_times = <<>>
    /\ Idle

Init == InitStream \/ InitScenario \/ InitSimple

Next ==
    \/ ScanBeat \/ ScanEndOfSong \/ EmitBeatInterval
    \/ ChoosePattern \/ PlacePrimary \/ PlaceChord \/ ReturnStreamMap
    \/ FilterOnsets \/ KeepAllOnsets \/ PlaceOnset \/ RaiseEmptyChoice \/ ReturnBeatmap

Spec == Init /\ [][Next]_vars

NextDetector == ScanBeat \/ ScanEndOfSong

SpecDetector == InitDetector /\ [][NextDetector]_vars

\* generate_stream_map up to the choice of the pattern, for the timestamp generator:
\* analyses over one more tick, with repeated onsets, and every minimum duration.
InitTimestamps ==
    /\ gen = "stream" /\ pc = "scan" /\ mode = "none"
    /\ lanes = DefaultLanes
    /\ stream_subdivision \in 0..MaxSubdivision
    /\ min_stream_duration_beats \in 0..MaxBeats
    /\ beat_times \in UNION { IncreasingSeqs(n, 0, MaxTime + 1) : n \in 0..MaxBeats }
    /\ is_beat_high_energy \in [1..Len(beat_times) -> BOOLEAN]
    /\ onset_times \in UNION { AscendingSeqs(n, 0, MaxTime + 1) : n \in 0..MaxOnsets }
    /\ Idle

NextTimestamps == ScanBeat \/ ScanEndOfSong \/ EmitBeatInterval \/ ChoosePattern

SpecTimestamps == InitTimestamps /\ [][NextTimestamps]_vars


\* ================================================================ claims
Simple == gen \in {"smart", "configurable"}

\* The lanes of the primary notes, in order (history variable is_chord).
RECURSIVE PrimaryLanes(_)
PrimaryLanes(k) ==
    IF k > Len(notes) THEN <<>>
    ELSE (IF is_chord[k] THEN <<>> ELSE << notes[k].lane >>) \o PrimaryLanes(k + 1)

\* C1: in every beatmap, finished or under construction, of any of the three
\* generators the notes are in non-decreasing order of time.
C1_NotesSortedByTime ==
    \A k \in 1..(Len(notes) - 1) : notes[k].time <= notes[k + 1].time

\* A returned stream map with a stream interval next to a non-stream interval,
\* a chord, and notes at different times.
C1_Witness ==
    /\ gen = "stream" /\ pc = "returned"
    /\ stream_sections # <<>>
    /\ \E b \in 0..(Len(beat_times) - 2) : ~InStream(b, stream_sections)
    /\ \E k \in 1..Len(is_chord) : is_chord[k]
    /\ notes[1].time < notes[Len(notes)].time

\* C2: no two notes with the same time have the same lane.
C2_DistinctLanesAtSameTime ==
    \A j, k \in 1..Len(notes) :
        (j < k /\ notes[j].time = notes[k].time) => notes[j].lane # notes[k].lane

\* C3: with lanes >= 1 every note has a lane in [0, lanes).
C3_LaneInRange ==
    lanes >= 1 => \A k \in 1..Len(notes) : notes[k].lane \in 0..(lanes - 1)

\* C4: in generate_stream_map the k-th primary note has lane pattern[k mod 8] of the
\* one pattern chosen at the start of the placement, there is one primary note per
\* timestamp placed, and a returned map has one per note timestamp.
C4_PrimaryLanesFollowPattern ==
    (gen = "stream" /\ pc \in {"place", "returned"}) =>
        LET primary == PrimaryLanes(1) IN
        /\ current_pattern \in Patterns
        /\ Len(primary) = i
        /\ pattern_index = i
        /\ \A k \in 1..Len(primary) : primary[k] = current_pattern[((k - 1) % 8) + 1]
        /\ pc = "returned" => Len(primary) = Len(note_timestamps)

\* A returned stream map of more than 8 timestamps (the pattern wrapped around)
\* with a chord in it.
C4_Witness ==
    /\ gen = "stream" /\ pc = "returned"
    /\ Len(note_timestamps) > 8
    /\ \E k \in 1..Len(is_chord) : is_chord[k] /\ k < Len(notes) - 8

\* C5: in the no-repeat generators, with lanes >= 2 adjacent notes have different
\* lanes, with lanes = 1 every note has lane 0, and last_lane is -1 until the
\* first note and the lane of the last note afterwards.
C5_NoImmediateRepeat ==
    Simple =>
        /\ lanes >= 2 => \A k \in 1..(Len(notes) - 1) : notes[k].lane # notes[k + 1].lane
        /\ lanes = 1 => \A k \in 1..Len(notes) : notes[k].lane = 0
        /\ last_lane = IF notes = <<>> THEN -1 ELSE notes[Len(notes)].lane

\* A returned beatmap of a no-repeat generator with two notes, the first of them
\* on the highest lane.
C5_Witness ==
    /\ Simple /\ pc = "returned" /\ lanes >= 2
    /\ Len(notes) >= 2
    /\ notes[1].lane = lanes - 1

\* The flags hold one contiguous run of true values, of length len from index start.
SingleRun(flags, start, len) ==
    /\ len >= 1 /\ start >= 0 /\ start + len <= Len(flags)
    /\ \A k \in 1..Len(flags) : flags[k] <=> (start < k /\ k <= start + len)

\* C6: for flags with a single contiguous run of true values of length L from index
\* s, the detector produces exactly the section (s, s + L) if L >= the minimum
\* duration and no section if L is less.
C6_SingleRunDetected ==
    pc = "timestamps" =>
        \A start \in 0..Len(is_beat_high_energy) : \A len \in 1..Len(is_beat_high_energy) :
            SingleRun(is_beat_high_energy, start, len) =>
                stream_sections = IF len >= min_stream_duration_beats
                                  THEN << <<start, start + len>> >>
                                  ELSE <<>>

\* A run of exactly the minimum length that goes to the end of the flags, detected.
C6_Witness ==
    /\ pc = "timestamps"
    /\ \E start \in 1..Len(is_beat_high_energy) : \E len \in 2..Len(is_beat_high_energy) :
         /\ SingleRun(is_beat_high_energy, start, len)
         /\ start + len = Len(is_beat_high_energy)
         /\ len = min_stream_duration_beats
         /\ stream_sections = << <<start, start + len>> >>

ScenarioInput ==
    /\ gen = "stream"
    /\ beat_times = ScenarioBeats
    /\ is_beat_high_energy = [k \in 1..5 |-> TRUE]
    /\ min_stream_duration_beats = 4
    /\ stream_subdivision = 4

\* 16 timestamps at 0, 125, ..., 1875 ms, downbeats exactly at indices 0, 4, 8, 12.
ScenarioTimestamps ==
    /\ Len(note_timestamps) = 16
    /\ Len(beat_flags) = 16
    /\ \A k \in 1..16 :
         /\ note_timestamps[k].num = 125 * (k - 1) * TicksPerMs * note_timestamps[k].den
         /\ TimeMs(note_timestamps[k]) = 125 * (k - 1)
         /\ beat_flags[k] <=> (k - 1) \in {0, 4, 8, 12}

\* C7 as stated: in the end-to-end scenario the detector produces exactly the
\* section {0,4} and the generator the 16 timestamps.
C7_ScenarioAsStated ==
    (ScenarioInput /\ pc \in {"place", "returned"}) =>
        /\ stream_sections = << <<0, 4>> >>
        /\ ScenarioTimestamps

\* C7 amended: in the end-to-end scenario the detector produces exactly the section
\* {0,5} (the run of five high-energy beats goes to the end of the song) and the
\* generator the 16 timestamps at 0, 125, ..., 1875 ms with downbeats at 0, 4, 8, 12.
C7_ScenarioAmended ==
    (ScenarioInput /\ pc \in {"place", "returned"}) =>
        /\ stream_sections = << <<0, 5>> >>
        /\ ScenarioTimestamps

C7_Witness == ScenarioInput /\ pc = "returned" /\ Len(notes) >= 16

\* C8: a generator called with lanes <= 0, or generate_stream_map called with
\* stream_subdivision <= 0, never returns a beatmap.
C8_FailsFast ==
    pc = "returned" =>
        /\ lanes >= 1
        /\ gen = "stream" => stream_subdivision >= 1

\* C9: the sections found so far are in increasing order of start, pairwise
\* disjoint, non-empty, at least the minimum duration long, and hold only
\* high-energy beats.
C9_SectionsOrderedDisjoint ==
    /\ \A k \in 1..Len(stream_sections) :
         LET start == stream_sections[k][1]
             end == stream_sections[k][2]
         IN /\ 0 <= start /\ start < end /\ end <= Len(is_beat_high_energy)
            /\ end - start >= min_stream_duration_beats
            /\ \A b \in start..(end - 1) : is_beat_high_energy[b + 1]
    /\ \A k \in 1..(Len(stream_sections) - 1) :
         /\ stream_sections[k][1] < stream_sections[k + 1][1]
         /\ stream_sections[k][2] <= stream_sections[k + 1][1]

\* Two sections found by a finished scan with a minimum duration of at least 2.
C9_Witness ==
    /\ pc = "timestamps"
    /\ Len(stream_sections) >= 2
    /\ min_stream_duration_beats >= 2

\* What the claim says the generator emits for beat interval b: the timestamps as
\* fractions of ticks, with their downbeat flags.
EarliestOnset(start, end) ==
    LET inside == { t \in Range(onset_times) : start <= t /\ t < end }
    IN IF inside = {} THEN start ELSE Min(inside)

ClaimedEmission(b) ==
    LET start == beat_times[b + 1]
        end == beat_times[b + 2]
    IN IF \E k \in 1..Len(stream_sections) :
              stream_sections[k][1] <= b /\ b < stream_sections[k][2]
       THEN [k \in 1..stream_subdivision |->
                [num |-> start * stream_subdivision + (k - 1) * (end - start),
                 den |-> stream_subdivision, flag |-> (k = 1)]]
       ELSE << [num |-> EarliestOnset(start, end), den |-> 1, flag |-> TRUE] >>

RECURSIVE ClaimedEmissions(_)
ClaimedEmissions(b) ==
    IF b <= 0 THEN <<>> ELSE ClaimedEmissions(b - 1) \o ClaimedEmission(b - 1)

====
